---- MODULE Spec2Model ----
(***************************************************************************)
(* Model of model-ml/trainer flex_sibi.py: the URI parser and the two      *)
(* export functions, the two data loaders, the numeric cleaner, and the    *)
(* main training script as a sequence of steps.                            *)
(*                                                                         *)
(* Strings are sequences of one-character strings, so that split, join,    *)
(* startswith, endswith and os.path.join are computed character by         *)
(* character as the Python code computes them.                             *)
(***************************************************************************)
EXTENDS Integers, Sequences, FiniteSets, TLC

VARIABLES
    args,       \* the parsed command line (arguments dict)
    pc,         \* position in the script / in the function under call
    error,      \* "none" or the type of the exception that ended the run
    ret,        \* return value of the last function called directly
    events,     \* history of external effects: clients, queries, uploads, fit, predict
    loaded,     \* the tables as they were before cleaning (df_train, df_test)
    df_train, df_test, df_valid,
    clf,        \* the pipeline object
    locals      \* X_train, y_train, X_test, y_test, cv_score, y_pred, report

vars == <<args, pc, error, ret, events, loaded, df_train, df_test, df_valid, clf, locals>>

----------------------------------------------------------------------------
(* Bounds *)

MaxTokens == 4      \* '/'-separated tokens of an arbitrary string passed as dir URI
MaxSegments == 3    \* path segments of a scheme://bucket/... dir URI
MaxRows == 2        \* rows of a table under test

----------------------------------------------------------------------------
(* Strings *)

Empty == <<>>
Slash == "/"
Dot == "."

Contains(s, ch) == \E i \in DOMAIN s : s[i] = ch

StartsWith(s, prefix) ==
    /\ Len(s) >= Len(prefix)
    /\ SubSeq(s, 1, Len(prefix)) = prefix

EndsWith(s, ch) == Len(s) > 0 /\ s[Len(s)] = ch

RECURSIVE SplitFrom(_, _, _, _, _)
SplitFrom(s, sep, i, cur, acc) ==
    IF i > Len(s) THEN Append(acc, cur)
    ELSE IF s[i] = sep THEN SplitFrom(s, sep, i + 1, <<>>, Append(acc, cur))
    ELSE SplitFrom(s, sep, i + 1, Append(cur, s[i]), acc)

\* str.split(sep) for a one-character separator: "" gives [""]
Split(s, sep) == SplitFrom(s, sep, 1, <<>>, <<>>)

RECURSIVE Join(_, _)
\* sep.join(toks)
Join(toks, sep) ==
    IF Len(toks) = 0 THEN <<>>
    ELSE IF Len(toks) = 1 THEN toks[1]
    ELSE toks[1] \o <<sep>> \o Join(Tail(toks), sep)

\* os.path.join(a, b) on posix
OsPathJoin(a, b) ==
    IF StartsWith(b, <<Slash>>) THEN b
    ELSE IF a = <<>> \/ EndsWith(a, Slash) THEN a \o b
    ELSE a \o <<Slash>> \o b

GsScheme == <<"g", "s", ":">>
BqPrefix == <<"b", "q", ":", "/", "/">>
GsPrefix == <<"g", "s", ":", "/", "/">>
ModelPkl == <<"m", "o", "d", "e", "l", ".", "p", "k", "l">>
ReportTxt == <<"r", "e", "p", "o", "r", "t", ".", "t", "x", "t">>

----------------------------------------------------------------------------
(* External effects *)

\* a call made to something outside the program, and whether it raised
Ev(op, bucket, name, content) ==
    [op |-> op, bucket |-> bucket, name |-> name, content |-> content, raised |-> FALSE]

Raised(ev) == [ev EXCEPT !.raised = TRUE]

IOOutcomes == {"ok", "client_error", "io_error"}

----------------------------------------------------------------------------
(* process_gcs_uri *)

NoParse(err) ==
    [err |-> err, scheme |-> <<>>, bucket |-> <<>>, path |-> <<>>, file |-> <<>>]

\* process_gcs_uri keeping the trailing slash of the path
process_gcs_uri_keeping_slash(uri) ==
    LET url_arr0 == Split(uri, Slash)
        last == url_arr0[Len(url_arr0)]
        hasFile == Contains(last, Dot)
        file == IF hasFile THEN last ELSE <<>>
        url_arr == IF hasFile THEN SubSeq(url_arr0, 1, Len(url_arr0) - 1) ELSE url_arr0
    IN  IF Len(url_arr) < 3 THEN NoParse("IndexError")
        ELSE [err |-> "none", scheme |-> url_arr[1], bucket |-> url_arr[3],
              path |-> Join(SubSeq(url_arr, 4, Len(url_arr)), Slash), file |-> file]

process_gcs_uri(uri) ==
    LET url_arr0 == Split(uri, Slash)
        last == url_arr0[Len(url_arr0)]
        hasFile == Contains(last, Dot)
        file == IF hasFile THEN last ELSE <<>>
        url_arr == IF hasFile THEN SubSeq(url_arr0, 1, Len(url_arr0) - 1) ELSE url_arr0
    IN  IF Len(url_arr) < 3 THEN NoParse("IndexError")
        ELSE LET path0 == Join(SubSeq(url_arr, 4, Len(url_arr)), Slash)
                 path == IF EndsWith(path0, Slash)
                         THEN SubSeq(path0, 1, Len(path0) - 1) ELSE path0
             IN [err |-> "none", scheme |-> url_arr[1], bucket |-> url_arr[3],
                 path |-> path, file |-> file]

----------------------------------------------------------------------------
(* pipeline_export_gcs, report_export_gcs *)

Outcome(err, value, evs) == [err |-> err, value |-> value, events |-> evs]

\* pipeline_export_gcs without the scheme check
pipeline_export_gcs_unchecked(fitted_pipeline, model_dir, io) ==
    LET p == process_gcs_uri(model_dir) IN
    IF p.err # "none" THEN Outcome(p.err, <<>>, <<>>)
    ELSE LET b == Ev("storage.Client", p.bucket, <<>>, "")
             export_path == OsPathJoin(p.path, ModelPkl)
             blob == Ev("upload_from_string", p.bucket, export_path, "pickle")
         IN IF io = "client_error" THEN Outcome("IOError", <<>>, <<Raised(b)>>)
            ELSE IF io = "io_error" THEN Outcome("IOError", <<>>, <<b, Raised(blob)>>)
            ELSE Outcome("none",
                         p.scheme \o <<Slash, Slash>> \o OsPathJoin(p.bucket, export_path),
                         <<b, blob>>)

\* io is the outcome of the storage calls: storage.Client() and
\* blob.upload_from_string() are calls to the network and either may raise
pipeline_export_gcs(fitted_pipeline, model_dir, io) ==
    LET p == process_gcs_uri(model_dir) IN
    IF p.err # "none" THEN Outcome(p.err, <<>>, <<>>)
    ELSE IF p.scheme # GsScheme THEN Outcome("ValueError", <<>>, <<>>)
    ELSE LET b == Ev("storage.Client", p.bucket, <<>>, "")
             export_path == OsPathJoin(p.path, ModelPkl)
             blob == Ev("upload_from_string", p.bucket, export_path, "pickle")
         IN IF io = "client_error" THEN Outcome("IOError", <<>>, <<Raised(b)>>)
            ELSE IF io = "io_error" THEN Outcome("IOError", <<>>, <<b, Raised(blob)>>)
            ELSE Outcome("none",
                         p.scheme \o <<Slash, Slash>> \o OsPathJoin(p.bucket, export_path),
                         <<b, blob>>)

report_export_gcs(report, report_dir, io) ==
    LET p == process_gcs_uri(report_dir) IN
    IF p.err # "none" THEN Outcome(p.err, <<>>, <<>>)
    ELSE IF p.scheme # GsScheme THEN Outcome("ValueError", <<>>, <<>>)
    ELSE LET b == Ev("storage.Client", p.bucket, <<>>, "")
             export_path == OsPathJoin(p.path, ReportTxt)
             blob == Ev("upload_from_string", p.bucket, export_path, "report")
         IN IF io = "client_error" THEN Outcome("IOError", <<>>, <<Raised(b)>>)
            ELSE IF io = "io_error" THEN Outcome("IOError", <<>>, <<b, Raised(blob)>>)
            ELSE Outcome("none",
                         p.scheme \o <<Slash, Slash>> \o OsPathJoin(p.bucket, export_path),
                         <<b, blob>>)

----------------------------------------------------------------------------
(* Tables: a table maps each column name to the sequence of its cells.     *)
(* A cell is a number (a reduced fraction n/d), a string, or NaN/None.     *)

NUMERIC_FEATURES == <<"p0", "p1", "p2", "p3", "p4">>
ALL_COLUMNS == NUMERIC_FEATURES
LABEL == "text"
NUMERIC_FEATURES_IDX == [i \in 1..Len(NUMERIC_FEATURES) |-> i - 1]
TableColumns == {NUMERIC_FEATURES[i] : i \in DOMAIN NUMERIC_FEATURES} \cup {LABEL}

Num(n, d) == [k |-> "num", n |-> n, d |-> d, s |-> <<>>]
Str(s) == [k |-> "str", n |-> 0, d |-> 1, s |-> s]
NaN == [k |-> "nan", n |-> 0, d |-> 1, s |-> <<>>]

Abs(x) == IF x < 0 THEN -x ELSE x

RECURSIVE GCD(_, _)
GCD(a, b) == IF b = 0 THEN a ELSE GCD(b, a % b)

\* the number n/d (d > 0) in lowest terms
Frac(n, d) == LET g == GCD(Abs(n), d) IN Num(n \div g, d \div g)

AddNum(a, b) == Frac(a.n * b.d + b.n * a.d, a.d * b.d)

Digits == <<"0", "1", "2", "3", "4", "5", "6", "7", "8", "9">>
IsDigit(ch) == \E i \in DOMAIN Digits : Digits[i] = ch
DigitValue(ch) == (CHOOSE i \in DOMAIN Digits : Digits[i] = ch) - 1

RECURSIVE ParseDigits(_, _)
ParseDigits(s, acc) ==
    IF s = <<>> THEN acc ELSE ParseDigits(Tail(s), 10 * acc + DigitValue(Head(s)))

\* pd.to_numeric(x, errors='coerce') on one cell: a number stays, a string of
\* decimal digits is parsed, anything else (other strings, None) becomes NaN
to_numeric(cell) ==
    IF cell.k = "num" THEN cell
    ELSE IF cell.k = "str" /\ cell.s # <<>> /\ \A i \in DOMAIN cell.s : IsDigit(cell.s[i])
         THEN Num(ParseDigits(cell.s, 0), 1)
    ELSE NaN

RECURSIVE SumNotNa(_)
SumNotNa(col) ==
    IF col = <<>> THEN Num(0, 1)
    ELSE IF Head(col).k = "nan" THEN SumNotNa(Tail(col))
    ELSE AddNum(Head(col), SumNotNa(Tail(col)))

CountNotNa(col) == Cardinality({i \in DOMAIN col : col[i].k # "nan"})

\* a mean that divides by the number of rows, missing ones included
mean_over_all_rows(col) ==
    LET t == SumNotNa(col)
    IN IF Len(col) = 0 THEN NaN ELSE Frac(t.n, t.d * Len(col))

\* Series.mean(): NaN entries are skipped; the mean of no entries is NaN
mean(col) ==
    LET c == CountNotNa(col)
        t == SumNotNa(col)
    IN IF c = 0 THEN NaN ELSE Frac(t.n, t.d * c)

\* Series.fillna(value)
fillna(col, value) == [i \in DOMAIN col |-> IF col[i].k = "nan" THEN value ELSE col[i]]

RECURSIVE clean_columns(_, _, _)
\* the for loop of clean_missing_numerics, from the i-th column on
clean_columns(df, numeric_columns, i) ==
    IF i > Len(numeric_columns) THEN df
    ELSE LET n == numeric_columns[i]
             coerced == [r \in DOMAIN df[n] |-> to_numeric(df[n][r])]
             filled == fillna(coerced, mean(coerced))
         IN clean_columns([df EXCEPT ![n] = filled], numeric_columns, i + 1)

clean_missing_numerics(df, numeric_columns) == clean_columns(df, numeric_columns, 1)

\* data_selection: (df.loc[:, selected_columns], df[label_column])
data_selection(df, selected_columns, label_column) ==
    [data |-> [i \in DOMAIN selected_columns |-> df[selected_columns[i]]],
     labels |-> df[label_column]]

\* pd.concat([a, b]) of two tables with the same columns
concat(a, b) == [c \in DOMAIN a |-> a[c] \o b[c]]

----------------------------------------------------------------------------
(* The data outside the program: one CSV object and two warehouse tables.  *)

CV_FOLDS == 10

Labels == <<"a", "b">>
LabelColumn(n) == [i \in 1..n |-> Str(<<Labels[(i % 2) + 1]>>)]

\* p0..p4 numeric, one row with a non-numeric string in p2
CsvTable ==
    [c \in TableColumns |->
        IF c = LABEL THEN LabelColumn(CV_FOLDS)
        ELSE IF c = "p2" THEN [i \in 1..CV_FOLDS |-> IF i = 1 THEN Str(<<"x">>) ELSE Num(i, 1)]
        ELSE [i \in 1..CV_FOLDS |-> Str(<<Digits[i]>>)]]

WarehouseTable ==
    [c \in TableColumns |->
        IF c = LABEL THEN LabelColumn(CV_FOLDS)
        ELSE [i \in 1..CV_FOLDS |-> IF i = 2 THEN NaN ELSE Num(2 * i, 1)]]

\* a table whose column p0 holds no number at all
UnparsedTable ==
    [c \in TableColumns |->
        IF c = LABEL THEN LabelColumn(CV_FOLDS)
        ELSE IF c = "p0" THEN [i \in 1..CV_FOLDS |-> IF i % 2 = 0 THEN NaN ELSE Str(<<"x">>)]
        ELSE [i \in 1..CV_FOLDS |-> Num(i, 1)]]

EmptyTable == [c \in TableColumns |-> <<>>]

CsvObject == GsPrefix \o <<"b", "/", "t", ".", "c", "s", "v">>
BqGood == BqPrefix \o <<"p", ".", "d", ".", "t">>
BqUnparsed == BqPrefix \o <<"p", ".", "d", ".", "u">>
NoPrefix == <<"p", ".", "d", ".", "t">>

Warehouse(dataset, table) == IF table = <<"u">> THEN UnparsedTable ELSE WarehouseTable

----------------------------------------------------------------------------
(* load_data_from_gcs, load_data_from_bq *)

Loaded(err, df, evs) == [err |-> err, df |-> df, events |-> evs]

\* dd.read_csv(path).compute() reads the object store; it raises when the
\* read fails or nothing is stored at the path
load_data_from_gcs(data_gcs_path, io) ==
    LET read == Ev("dd.read_csv", <<>>, data_gcs_path, "") IN
    IF io # "ok" \/ data_gcs_path # CsvObject
    THEN Loaded("IOError", EmptyTable, <<Raised(read)>>)
    ELSE Loaded("none", CsvTable, <<read>>)

\* load_data_from_bq without the prefix check
load_data_from_bq_unchecked(bq_uri, io) ==
    LET parts == Split(bq_uri, Dot) IN
    IF Len(parts) # 3 THEN Loaded("ValueError", EmptyTable, <<>>)
    ELSE LET project == parts[1]
             dataset == parts[2]
             table == parts[3]
             bqclient == Ev("bigquery.Client", SubSeq(project, 6, Len(project)), <<>>, "")
             bqstorageclient == Ev("bigquery_storage.BigQueryReadClient", <<>>, <<>>, "")
             query == Ev("bqclient.query", dataset, table, "")
         IN IF io = "client_error" THEN Loaded("IOError", EmptyTable, <<Raised(bqclient)>>)
            ELSE IF io = "io_error"
                 THEN Loaded("IOError", EmptyTable,
                             <<bqclient, bqstorageclient, Raised(query)>>)
            ELSE Loaded("none", Warehouse(dataset, table),
                        <<bqclient, bqstorageclient, query>>)

load_data_from_bq(bq_uri, io) ==
    IF ~StartsWith(bq_uri, BqPrefix) THEN Loaded("Exception", EmptyTable, <<>>)
    ELSE LET parts == Split(bq_uri, Dot) IN
         IF Len(parts) # 3 THEN Loaded("ValueError", EmptyTable, <<>>)
         ELSE LET project == parts[1]
                  dataset == parts[2]
                  table == parts[3]
                  bqclient == Ev("bigquery.Client", SubSeq(project, 6, Len(project)), <<>>, "")
                  bqstorageclient == Ev("bigquery_storage.BigQueryReadClient", <<>>, <<>>, "")
                  query == Ev("bqclient.query", dataset, table, "")
              IN IF io = "client_error" THEN Loaded("IOError", EmptyTable, <<Raised(bqclient)>>)
                 ELSE IF io = "io_error"
                      THEN Loaded("IOError", EmptyTable,
                                  <<bqclient, bqstorageclient, Raised(query)>>)
                 ELSE Loaded("none", Warehouse(dataset, table),
                             <<bqclient, bqstorageclient, query>>)

----------------------------------------------------------------------------
(* pipeline_builder, train_pipeline *)

HasNaN(X) == \E c \in DOMAIN X : \E i \in DOMAIN X[c] : X[c][i].k = "nan"
Rows(X) == IF DOMAIN X = {} THEN 0 ELSE Len(X[1])

pipeline_builder(params_svm, num_ftr_idx) ==
    [params |-> params_svm, columns |-> num_ftr_idx, fitted |-> FALSE, fits |-> 0]

Fit(pipeline) == [pipeline EXCEPT !.fitted = TRUE, !.fits = @ + 1]

\* train_pipeline whose cross-validation fits clf itself before the final fit
train_pipeline_refitting(pipeline, X, y) ==
    LET cv == Ev("cross_val_score", <<>>, <<>>, "")
        fit == Ev("clf.fit", <<>>, <<>>, "")
    IN IF Rows(X) < CV_FOLDS \/ HasNaN(X)
       THEN [err |-> "ValueError", clf |-> pipeline, score |-> "none", events |-> <<Raised(cv)>>]
       ELSE [err |-> "none", clf |-> Fit(Fit(pipeline)), score |-> "score",
             events |-> <<cv, fit, fit>>]

\* cross_val_score fits clones of clf and leaves clf alone; it raises when the
\* data cannot be split in cv=10 folds or holds NaN; then clf.fit(X, y)
train_pipeline(pipeline, X, y) ==
    LET cv == Ev("cross_val_score", <<>>, <<>>, "")
        fit == Ev("clf.fit", <<>>, <<>>, "")
    IN IF Rows(X) < CV_FOLDS \/ HasNaN(X)
       THEN [err |-> "ValueError", clf |-> pipeline, score |-> "none", events |-> <<Raised(cv)>>]
       ELSE [err |-> "none", clf |-> Fit(pipeline), score |-> "score", events |-> <<cv, fit>>]

----------------------------------------------------------------------------
(* The main script *)

DataFormats == {"csv", "bigquery", "jsonl"}   \* AIP_DATA_FORMAT is not checked against choices
DataUris == {CsvObject, BqGood, BqUnparsed, NoPrefix, Empty}

Bucket == <<"b", "u", "c", "k", "e", "t">>
PathSeg == <<"p", "a", "t", "h">>
DotSeg == <<"v", "1", ".", "2">>
HttpScheme == <<"h", "t", "t", "p", ":">>

ModelDirs ==
    { <<>>,
      Join(<<GsScheme, <<>>, Bucket, PathSeg>>, Slash),
      Join(<<GsScheme, <<>>, Bucket, DotSeg>>, Slash),
      Join(<<HttpScheme, <<>>, Bucket, PathSeg>>, Slash) }

Arguments(fmt, train, valid, test, dir) ==
    [model_param_kernel |-> "linear", model_param_degree |-> 3,
     model_param_C |-> 1, model_param_probability |-> TRUE,
     model_dir |-> dir, data_format |-> fmt, training_data_uri |-> train,
     validation_data_uri |-> valid, test_data_uri |-> test]

NoLocals ==
    [X_train |-> <<>>, y_train |-> <<>>, X_test |-> <<>>, y_test |-> <<>>,
     cv_score |-> "none", y_pred |-> "none", report |-> "none"]

NoClf == pipeline_builder(<<>>, <<>>)

Start(a, at) ==
    /\ args = a
    /\ pc = at
    /\ error = "none"
    /\ ret = <<>>
    /\ events = <<>>
    /\ df_valid = EmptyTable
    /\ clf = NoClf
    /\ locals = NoLocals

Init ==
    \E fmt \in DataFormats, train \in DataUris, valid \in DataUris,
       test \in DataUris, dir \in ModelDirs :
        /\ Start(Arguments(fmt, train, valid, test, dir), "load_train")
        /\ df_train = EmptyTable
        /\ df_test = EmptyTable
        /\ loaded = [train |-> EmptyTable, test |-> EmptyTable]

\* an uncaught exception ends the run
Raise(err, evs) ==
    /\ pc' = "failed"
    /\ error' = err
    /\ events' = events \o evs

\* a load made with the loader of the given name
LoadCall(loader, uri) == Ev("load", <<>>, uri, loader)

LoadWith(loader, uri, io) ==
    IF loader = "gcs" THEN load_data_from_gcs(uri, io) ELSE load_data_from_bq(uri, io)

\* lines 382-392: the loader each table is read with under a data_format
LoaderOf(fmt, tbl) ==
    IF fmt = "csv" THEN (IF tbl = "test" THEN "bq" ELSE "gcs") ELSE "bq"

LoadTrain ==
    /\ pc = "load_train"
    /\ IF args.data_format \notin {"csv", "bigquery"}
       THEN /\ Raise("ValueError", <<>>)
            /\ UNCHANGED <<args, ret, loaded, df_train, df_test, df_valid, clf, locals>>
       ELSE \E io \in IOOutcomes :
            LET ld == LoaderOf(args.data_format, "train")
                r == LoadWith(ld, args.training_data_uri, io)
                call == <<LoadCall(ld, args.training_data_uri)>>
            IN IF r.err # "none"
               THEN /\ Raise(r.err, call \o r.events)
                    /\ UNCHANGED <<args, ret, loaded, df_train, df_test, df_valid, clf, locals>>
               ELSE /\ df_train' = r.df
                    /\ events' = events \o call \o r.events
                    /\ pc' = "load_test"
                    /\ UNCHANGED <<args, error, ret, loaded, df_test, df_valid, clf, locals>>

LoadTest ==
    /\ pc = "load_test"
    /\ \E io \in IOOutcomes :
        LET ld == LoaderOf(args.data_format, "test")
            r == LoadWith(ld, args.test_data_uri, io)
            call == <<LoadCall(ld, args.test_data_uri)>>
        IN IF r.err # "none"
           THEN /\ Raise(r.err, call \o r.events)
                /\ UNCHANGED <<args, ret, loaded, df_train, df_test, df_valid, clf, locals>>
           ELSE /\ df_test' = r.df
                /\ events' = events \o call \o r.events
                /\ pc' = "load_valid"
                /\ UNCHANGED <<args, error, ret, loaded, df_train, df_valid, clf, locals>>

LoadValid ==
    /\ pc = "load_valid"
    /\ \E io \in IOOutcomes :
        LET ld == LoaderOf(args.data_format, "valid")
            r == LoadWith(ld, args.validation_data_uri, io)
            call == <<LoadCall(ld, args.validation_data_uri)>>
        IN IF r.err # "none"
           THEN /\ Raise(r.err, call \o r.events)
                /\ UNCHANGED <<args, ret, loaded, df_train, df_test, df_valid, clf, locals>>
           ELSE /\ df_valid' = r.df
                /\ events' = events \o call \o r.events
                /\ pc' = "concat"
                /\ UNCHANGED <<args, error, ret, loaded, df_train, df_test, clf, locals>>

\* line 394
Concat ==
    /\ pc = "concat"
    /\ df_test' = concat(df_test, df_valid)
    /\ loaded' = [train |-> df_train, test |-> concat(df_test, df_valid)]
    /\ pc' = "clean_train"
    /\ UNCHANGED <<args, error, ret, events, df_train, df_valid, clf, locals>>

\* line 403
CleanTrain ==
    /\ pc = "clean_train"
    /\ df_train' = clean_missing_numerics(df_train, NUMERIC_FEATURES)
    /\ pc' = "clean_test"
    /\ UNCHANGED <<args, error, ret, events, loaded, df_test, df_valid, clf, locals>>

\* line 404
CleanTest ==
    /\ pc = "clean_test"
    /\ df_test' = clean_missing_numerics(df_test, NUMERIC_FEATURES)
    /\ pc' = "select"
    /\ UNCHANGED <<args, error, ret, events, loaded, df_train, df_valid, clf, locals>>

\* lines 408-409
Select ==
    /\ pc = "select"
    /\ LET tr == data_selection(df_train, ALL_COLUMNS, LABEL)
           te == data_selection(df_test, ALL_COLUMNS, LABEL)
       IN locals' = [locals EXCEPT !.X_train = tr.data, !.y_train = tr.labels,
                                   !.X_test = te.data, !.y_test = te.labels]
    /\ pc' = "build"
    /\ UNCHANGED <<args, error, ret, events, loaded, df_train, df_test, df_valid, clf>>

\* lines 397-401, 412
Build ==
    /\ pc = "build"
    /\ LET model_params == [kernel |-> args.model_param_kernel,
                            degree |-> args.model_param_degree,
                            C |-> args.model_param_C,
                            probability |-> args.model_param_probability]
       IN clf' = pipeline_builder(model_params, NUMERIC_FEATURES_IDX)
    /\ pc' = "train"
    /\ UNCHANGED <<args, error, ret, events, loaded, df_train, df_test, df_valid, locals>>

\* line 414
Train ==
    /\ pc = "train"
    /\ LET r == train_pipeline(clf, locals.X_train, locals.y_train) IN
        /\ clf' = r.clf
        /\ IF r.err # "none"
           THEN /\ Raise(r.err, r.events)
                /\ UNCHANGED locals
           ELSE /\ locals' = [locals EXCEPT !.cv_score = r.score]
                /\ events' = events \o r.events
                /\ pc' = "export_model"
                /\ UNCHANGED error
    /\ UNCHANGED <<args, ret, loaded, df_train, df_test, df_valid>>

\* the model export with its exception swallowed
ExportModel_swallowing ==
    /\ pc = "export_model"
    /\ \E io \in IOOutcomes :
        LET r == pipeline_export_gcs(clf, args.model_dir, io) IN
        /\ events' = events \o r.events
        /\ pc' = "predict"
        /\ UNCHANGED error
    /\ UNCHANGED <<args, ret, loaded, df_train, df_test, df_valid, clf, locals>>

\* line 419
ExportModel ==
    /\ pc = "export_model"
    /\ \E io \in IOOutcomes :
        LET r == pipeline_export_gcs(clf, args.model_dir, io) IN
        IF r.err # "none"
        THEN Raise(r.err, r.events)
        ELSE /\ events' = events \o r.events
             /\ pc' = "predict"
             /\ UNCHANGED error
    /\ UNCHANGED <<args, ret, loaded, df_train, df_test, df_valid, clf, locals>>

\* line 421: the classifier rejects NaN input
Predict ==
    /\ pc = "predict"
    /\ LET call == <<Ev("clf.predict", <<>>, <<>>, "")>> IN
        IF HasNaN(locals.X_test)
        THEN /\ Raise("ValueError", <<Raised(call[1])>>)
             /\ UNCHANGED locals
        ELSE /\ locals' = [locals EXCEPT !.y_pred = "predicted"]
             /\ events' = events \o call
             /\ pc' = "report"
             /\ UNCHANGED error
    /\ UNCHANGED <<args, ret, loaded, df_train, df_test, df_valid, clf>>

\* lines 424-433: f1_score, classification_report, prepare_report
Report ==
    /\ pc = "report"
    /\ locals' = [locals EXCEPT !.report = "rendered"]
    /\ pc' = "export_report"
    /\ UNCHANGED <<args, error, ret, events, loaded, df_train, df_test, df_valid, clf>>

\* lines 435-438
ExportReport ==
    /\ pc = "export_report"
    /\ \E io \in IOOutcomes :
        LET r == report_export_gcs(locals.report, args.model_dir, io) IN
        IF r.err # "none"
        THEN Raise(r.err, r.events)
        ELSE /\ events' = events \o r.events
             /\ pc' = "done"
             /\ UNCHANGED error
    /\ UNCHANGED <<args, ret, loaded, df_train, df_test, df_valid, clf, locals>>

Next ==
    \/ LoadTrain
    \/ LoadTest
    \/ LoadValid
    \/ Concat
    \/ CleanTrain
    \/ CleanTest
    \/ Select
    \/ Build
    \/ Train
    \/ ExportModel
    \/ Predict
    \/ Report
    \/ ExportReport

Spec == Init /\ [][Next]_vars

----------------------------------------------------------------------------
(* The URI parser and the export functions called on any dir URI *)

Tokens == {<<>>, GsScheme, HttpScheme, Bucket, PathSeg, DotSeg}

\* any string of up to MaxTokens tokens
TokenLists == UNION {[1..n -> Tokens] : n \in 0..MaxTokens}

\* scheme://bucket/p1/.../pn with and without a trailing slash
SegmentLists == UNION {[1..n -> {PathSeg, DotSeg}] : n \in 0..MaxSegments}
UriLists ==
    {<<scheme, <<>>, Bucket>> \o segs \o tail :
        scheme \in {GsScheme, HttpScheme}, segs \in SegmentLists, tail \in {<<>>, <<<<>>>>}}

UriInputs == {Join(t, Slash) : t \in TokenLists \cup UriLists}

InitUri ==
    \E uri \in UriInputs :
        /\ Start(Arguments("csv", <<>>, <<>>, <<>>, uri), "call")
        /\ df_train = EmptyTable
        /\ df_test = EmptyTable
        /\ loaded = [train |-> EmptyTable, test |-> EmptyTable]

CallProcessGcsUri ==
    /\ pc = "call"
    /\ LET r == process_gcs_uri(args.model_dir) IN
        /\ ret' = r
        /\ error' = r.err
    /\ pc' = "process_gcs_uri"
    /\ UNCHANGED <<args, events, loaded, df_train, df_test, df_valid, clf, locals>>

CallPipelineExport ==
    /\ pc = "call"
    /\ \E io \in IOOutcomes :
        LET r == pipeline_export_gcs(clf, args.model_dir, io) IN
        /\ ret' = r.value
        /\ error' = r.err
        /\ events' = events \o r.events
    /\ pc' = "pipeline_export_gcs"
    /\ UNCHANGED <<args, loaded, df_train, df_test, df_valid, clf, locals>>

CallReportExport ==
    /\ pc = "call"
    /\ \E io \in IOOutcomes :
        LET r == report_export_gcs(locals.report, args.model_dir, io) IN
        /\ ret' = r.value
        /\ error' = r.err
        /\ events' = events \o r.events
    /\ pc' = "report_export_gcs"
    /\ UNCHANGED <<args, loaded, df_train, df_test, df_valid, clf, locals>>

NextUri ==
    \/ CallProcessGcsUri
    \/ CallPipelineExport
    \/ CallReportExport

SpecUri == InitUri /\ [][NextUri]_vars

----------------------------------------------------------------------------
(* The cleaner applied to any pair of tables, as lines 403-404 apply it *)

Cells == <<Num(1, 1), Str(<<"3">>), Str(<<"x">>), NaN, Num(2, 1), Str(<<"1", "2">>)>>

CellAt(i) == Cells[((i - 1) % Len(Cells)) + 1]

\* a table of n rows generated from the cell indices of its first column:
\* the k-th numeric column holds the cells k places further in Cells
TableOf(n, seed) ==
    [c \in TableColumns |->
        IF c = LABEL THEN LabelColumn(n)
        ELSE LET k == CHOOSE i \in DOMAIN NUMERIC_FEATURES : NUMERIC_FEATURES[i] = c
             IN [r \in 1..n |-> CellAt(seed[r] + k - 1)]]

Tables == UNION {{TableOf(n, seed) : seed \in [1..n -> DOMAIN Cells]} : n \in 0..MaxRows}

InitClean ==
    \E a \in Tables, b \in Tables :
        /\ Start(Arguments("csv", <<>>, <<>>, <<>>, <<>>), "clean_train")
        /\ df_train = a
        /\ df_test = b
        /\ loaded = [train |-> a, test |-> b]

NextClean ==
    \/ CleanTrain
    \/ CleanTest

SpecClean == InitClean /\ [][NextClean]_vars

----------------------------------------------------------------------------

(* Properties *)

ExportReturned == pc \in {"pipeline_export_gcs", "report_export_gcs"}

HttpDir == Join(<<HttpScheme, <<>>, Bucket, PathSeg>>, Slash)

StorageCalls == {i \in DOMAIN events : events[i].op \in {"storage.Client", "upload_from_string"}}

\* C1: for every dir URI whose scheme is not gs, malformed ones included, both
\* export functions fail with ValueError "URI scheme must be gs" and with no
\* other error.
C1_NonGsDirRaisesSchemeError ==
    (ExportReturned /\ ~StartsWith(args.model_dir, GsPrefix)) => error = "ValueError"

\* C2: a storage client is created or an upload made only when the scheme
\* parsed from the dir URI is the gs token; http://bucket/path ends in the
\* scheme error with no storage call at all.
C2_StorageOnlyAfterSchemeCheck ==
    /\ StorageCalls # {} =>
         LET p == process_gcs_uri(args.model_dir) IN p.err = "none" /\ p.scheme = GsScheme
    /\ (ExportReturned /\ args.model_dir = HttpDir) =>
         (error = "ValueError" /\ events = <<>>)

C2_Witness ==
    /\ ExportReturned
    /\ \E i \in DOMAIN events : events[i].op = "upload_from_string"

Uploaded(content) ==
    \E i \in DOMAIN events :
        /\ events[i].op = "upload_from_string"
        /\ events[i].content = content
        /\ ~events[i].raised

RunEnded == pc \in {"done", "failed"}

\* C3: at no end state of a run has the model artifact been uploaded while
\* the report has not, whatever step fails.
C3_BothExportsOrNeither ==
    RunEnded => ~(Uploaded("pickle") /\ ~Uploaded("report"))

\* C3 as amended: the report is never uploaded without the model artifact,
\* a run that completes has uploaded both, and a run that has not uploaded
\* the model artifact has uploaded nothing.
C3_ReportImpliesModel ==
    /\ Uploaded("report") => Uploaded("pickle")
    /\ pc = "done" => (Uploaded("pickle") /\ Uploaded("report"))
    /\ ~Uploaded("pickle") =>
         \A i \in DOMAIN events : events[i].op = "upload_from_string" => events[i].raised

C3_Witness ==
    /\ pc = "failed"
    /\ Uploaded("pickle")
    /\ ~Uploaded("report")

NonEmptyTokens(t, from, to) == \A i \in from..to : t[i] # <<>>

\* C4: process_gcs_uri returns, for scheme://bucket/p1/.../pn/file.ext with
\* non-empty segments and a '.' in the last one, the token before the first
\* '/' as scheme, the bucket, the path p1/.../pn and file.ext; and for
\* scheme://bucket/p1/.../pn/ the same with an empty file name and no
\* trailing slash on the path.
C4_UriDecomposition ==
    pc = "process_gcs_uri" =>
        LET t == Split(args.model_dir, Slash)
            n == Len(t)
            wellFormed == /\ n >= 4
                          /\ t[1] # <<>> /\ t[2] = <<>> /\ t[3] # <<>>
                          /\ NonEmptyTokens(t, 4, n - 1)
            segments == SubSeq(t, 4, n - 1)
        IN /\ (wellFormed /\ Contains(t[n], Dot)) =>
                ret = [err |-> "none", scheme |-> t[1], bucket |-> t[3],
                       path |-> Join(segments, Slash), file |-> t[n]]
           /\ (wellFormed /\ t[n] = <<>>) =>
                ret = [err |-> "none", scheme |-> t[1], bucket |-> t[3],
                       path |-> Join(segments, Slash), file |-> <<>>]

C4_Witness ==
    /\ pc = "process_gcs_uri"
    /\ args.model_dir = Join(<<GsScheme, <<>>, Bucket, PathSeg, DotSeg, DotSeg>>, Slash)
    /\ ret.file = DotSeg

\* the object {dir}/objectName of a dir gs://bucket/p1/.../pn, with or
\* without a trailing slash
DirTokens(dir) ==
    LET t == Split(dir, Slash) IN
    IF Len(t) > 3 /\ t[Len(t)] = <<>> THEN SubSeq(t, 1, Len(t) - 1) ELSE t

IsGsDir(dir) ==
    LET t == DirTokens(dir) IN
    /\ Len(t) >= 3
    /\ t[1] = GsScheme /\ t[2] = <<>>
    /\ NonEmptyTokens(t, 3, Len(t))

ExportedTo(dir, objectName) ==
    LET t == DirTokens(dir)
        name == Join(SubSeq(t, 4, Len(t)) \o <<objectName>>, Slash)
    IN /\ error = "none"
       /\ \E i \in DOMAIN events :
            /\ events[i].op = "upload_from_string"
            /\ events[i].bucket = t[3]
            /\ events[i].name = name
       /\ ret = Join(t \o <<objectName>>, Slash)

\* C5: for every dir URI with the gs scheme and a non-empty bucket,
\* pipeline_export_gcs uploads to {dir}/model.pkl in dir's bucket and
\* report_export_gcs to {dir}/report.txt, and each returns the URI of the
\* object it uploaded to (storage failures aside).
C5_ExportsUnderDir ==
    (ExportReturned /\ IsGsDir(args.model_dir) /\ error # "IOError") =>
        ExportedTo(args.model_dir,
                   IF pc = "pipeline_export_gcs" THEN ModelPkl ELSE ReportTxt)

NoMissing(df) ==
    \A i \in DOMAIN NUMERIC_FEATURES :
        \A r \in DOMAIN df[NUMERIC_FEATURES[i]] : df[NUMERIC_FEATURES[i]][r].k = "num"

\* C6: after clean_missing_numerics every numeric column of the table is
\* numeric with no missing entry, for every mix of values in the column.
C6_NoMissingAfterCleaning ==
    /\ pc \in {"clean_test", "select"} => NoMissing(df_train)
    /\ pc = "select" => NoMissing(df_test)

\* C7: data_format selects one loader for the whole run: csv loads every
\* table with load_data_from_gcs, bigquery with load_data_from_bq.
C7_OneLoaderPerRun ==
    \A i \in DOMAIN events :
        events[i].op = "load" =>
            /\ args.data_format = "csv" => events[i].content = "gcs"
            /\ args.data_format = "bigquery" => events[i].content = "bq"

NetworkOps ==
    {"dd.read_csv", "bigquery.Client", "bigquery_storage.BigQueryReadClient",
     "bqclient.query", "storage.Client", "upload_from_string"}

Calls(op) == {i \in DOMAIN events : events[i].op = op}

ModelUploads ==
    {i \in Calls("upload_from_string") : events[i].content = "pickle" /\ ~events[i].raised}

FitOnceBeforeUse ==
    /\ Cardinality(Calls("clf.fit")) <= 1
    /\ clf.fits = Cardinality(Calls("clf.fit"))
    /\ \A i \in Calls("clf.fit") : \E j \in Calls("cross_val_score") : j < i
    /\ \A i \in Calls("upload_from_string") \cup Calls("clf.predict") :
         \E j \in Calls("clf.fit") : j < i
    /\ Cardinality(ModelUploads) <= 1
    /\ pc = "done" => (Cardinality(ModelUploads) = 1 /\ clf.fits = 1)

\* C9: in every run the pipeline is fitted exactly once, by train_pipeline
\* after cross-validation; the fit precedes the model export and the
\* prediction; the model artifact is exported at most once, and exactly once
\* in a run that completes.
C9_FittedExactlyOnceInEveryRun ==
    /\ FitOnceBeforeUse
    /\ RunEnded => Cardinality(Calls("clf.fit")) = 1

\* C9 as amended: the pipeline is fitted at most once in a run, by
\* train_pipeline after cross-validation, and exactly once in a run that
\* reaches the model export; the fit precedes the model export and the
\* prediction; no step after the fit changes the pipeline; the model artifact
\* is exported at most once, and exactly once in a run that completes.
C9_FittedOnceThenReadOnly ==
    /\ []FitOnceBeforeUse
    /\ [][clf.fitted => clf' = clf]_vars

C9_Witness ==
    /\ pc = "done"
    /\ clf.fits = 1
    /\ Cardinality(ModelUploads) = 1

RECURSIVE SumOfParsed(_)
SumOfParsed(col) ==
    IF col = <<>> THEN 0
    ELSE (IF to_numeric(Head(col)).k = "num" THEN to_numeric(Head(col)).n ELSE 0)
         + SumOfParsed(Tail(col))

Parsable(col) == {r \in DOMAIN col : to_numeric(col[r]).k = "num"}

\* m is the mean of the parsable entries of col (NaN when there is none)
IsMeanOfParsed(m, col) ==
    IF Parsable(col) = {} THEN m = NaN
    ELSE /\ m.k = "num"
         /\ m.n * Cardinality(Parsable(col)) = m.d * SumOfParsed(col)

CleanedFrom(raw, out) ==
    /\ out[LABEL] = raw[LABEL]
    /\ \A i \in DOMAIN NUMERIC_FEATURES :
        LET c == NUMERIC_FEATURES[i] IN
        /\ Len(out[c]) = Len(raw[c])
        /\ \A r \in DOMAIN raw[c] :
            IF r \in Parsable(raw[c])
            THEN out[c][r] = to_numeric(raw[c][r])
            ELSE IsMeanOfParsed(out[c][r], raw[c])

====
